---- MODULE Spec2Model ----
(***************************************************************************)
(* ISO2DFD (src/Compiler/iso2dfd_dpcpp/src/iso2dfd.cpp): the 2D acoustic   *)
(* wave stencil, its parallel (SYCL) and serial drivers, the validator and *)
(* main's control flow.                                                    *)
(*                                                                         *)
(* Numbers.  The program computes in IEEE float/double; the model computes *)
(* in fixed point, one unit = 1e-6, with every product that the code       *)
(* rounds to a float rounded to the nearest unit (RoundDiv).  The wavelet  *)
(* taps, the tolerance 0.1f and the squared velocity 1500*1500 are the     *)
(* source's literals in that unit (the velocity is an exact integer).      *)
(* Equality of two fields in the model therefore means: the same sequence  *)
(* of arithmetic operations was applied to the same cells.                 *)
(*                                                                         *)
(* Memory.  A float array is a function from 0..nsize-1 to Int; an array   *)
(* that is not allocated, or allocated and not yet written, is << >> (the  *)
(* program never reads such an array).  Inside the buffer scope of main    *)
(* (lines 308-347) next_base, prev_base and vel_base stand for the storage *)
(* the SYCL buffers b_next, b_prev and b_vel manage; the runtime writes it *)
(* back to the host pointers when the scope ends.                          *)
(*                                                                         *)
(* Kernels.  In Spec a kernel is one step (ExecKernel).  KSpec runs the    *)
(* kernels one work-item at a time: ran[j] is the set of work-items of the *)
(* kernel submitted with loop counter j that have run (each identified by  *)
(* its gid); in the other specifications ran is empty.                     *)
(***************************************************************************)
EXTENDS Integers, Sequences, FiniteSets, TLC

VARIABLES argv, pc, nRows, nCols, nIterations,
          prev_base, next_base, next_cpu, vel_base,
          k, executed, cpu_k, cpu_next, cpu_prev,
          error, errFile, compared,
          snapshot, snapshot_cpu, usagePrinted, exitCode, ran

vars == <<argv, pc, nRows, nCols, nIterations,
          prev_base, next_base, next_cpu, vel_base,
          k, executed, cpu_k, cpu_next, cpu_prev,
          error, errFile, compared,
          snapshot, snapshot_cpu, usagePrinted, exitCode, ran>>

(***************************************************************************)
(* Bounds of the model.                                                    *)
(***************************************************************************)
\* largest grid dimension given on the command line
MaxN == 10
\* largest iteration count given on the command line
MaxIter == 3

(***************************************************************************)
(* Program constants.                                                      *)
(***************************************************************************)
\* constexpr unsigned int HALF_LENGTH = 1
HALF_LENGTH == 1
\* for (int s = 11; ...): index of the outermost wavelet ring
MaxRing == 11
\* 1500.0f * 1500.0f
VelSquared == 2250000
\* within_epsilon(..., 0.1f): the tolerance, in units of 1e-6
Delta == 100000
\* dtDIVdxy = (DT*DT)/(DXY*DXY) = (0.002*0.002)/(20*20) = 1/DtDivDxyDen
DtDivDxyDen == 100000000
\* INT_MAX / 10: std::stoi reports std::out_of_range beyond INT_MIN..INT_MAX
IntMaxDiv10 == 214748364
\* exit status of a process ended by std::terminate or a signal: none
NoExit == -1

\* float wavelet[12], in units of 1e-6; wavelet[s] of the source is Wavelet(s)
WaveletTaps == <<16387, -41465, -67373, 386110, 812724, 416998,
                 76489, -59434, 23680, 5611, 1823, -721>>
Wavelet(s) == WaveletTaps[s + 1]

(***************************************************************************)
(* Arithmetic helpers.                                                     *)
(***************************************************************************)
Abs(x) == IF x < 0 THEN -x ELSE x

\* a / b rounded to the nearest integer (b > 0): the rounding of a float
\* product to the model's unit
RoundDiv(a, b) ==
  IF a >= 0 THEN (2 * a + b) \div (2 * b) ELSE -((2 * (-a) + b) \div (2 * b))

\* `a < b` compared as signed integers
IntLessSigned(a, b) == a < b

\* `a < b` where a is an int and b a size_t (lines 83, 92, 94): a is converted
\* to size_t, so a negative a becomes a value above every grid dimension
IntLessSizeT(a, b) == a >= 0 /\ a < b

RECURSIVE Gcd(_, _)
Gcd(a, b) == IF b = 0 THEN a ELSE Gcd(b, a % b)

\* dtDIVdxy * vel[gid] (lines 185, 228) as the fraction CoefNum/CoefDen in
\* lowest terms: 1500*1500 / 10^8 = 9/400
CoefNum(v) == v \div Gcd(v, DtDivDxyDen)
CoefDen(v) == DtDivDxyDen \div Gcd(v, DtDivDxyDen)

(***************************************************************************)
(* Command-line text.  An argument is a sequence of one-character strings; *)
(* argv is the sequence argv[1..argc-1], and argv[argc] is the null        *)
(* pointer.                                                                *)
(***************************************************************************)
Digits == <<"0", "1", "2", "3", "4", "5", "6", "7", "8", "9">>
IsDigit(c) == \E d \in 1..10 : Digits[d] = c
DigitVal(c) == (CHOOSE d \in 1..10 : Digits[d] = c) - 1

\* the decimal numeral of n >= 0 (how a caller writes a number)
RECURSIVE Numeral(_)
Numeral(n) ==
  IF n < 10 THEN <<Digits[n + 1]>>
  ELSE Append(Numeral(n \div 10), Digits[(n % 10) + 1])

\* the characters std::stoi skips before the number (isspace of strtol):
\* space, horizontal tab, new line, carriage return, form feed and vertical
\* tab (the last one is the character of code 11, written as itself)
WhiteSpace == {" ", "\t", "\n", "\r", "\f", ""}

\* std::stoi (lines 248-250): skip leading white space, take an optional sign
\* and the longest run of digits, ignore what follows.  ok = FALSE stands for
\* the exception (std::invalid_argument when there is no digit,
\* std::out_of_range when the value does not fit an int).
RECURSIVE SkipSpace(_, _)
SkipSpace(s, i) ==
  IF i <= Len(s) /\ s[i] \in WhiteSpace THEN SkipSpace(s, i + 1) ELSE i

RECURSIVE StoiDigits(_, _, _, _, _)
StoiDigits(s, i, neg, acc, seen) ==
  IF i <= Len(s) /\ IsDigit(s[i])
  THEN LET d == DigitVal(s[i])
           fits == IF neg
                   THEN acc > -IntMaxDiv10 \/ (acc = -IntMaxDiv10 /\ d <= 8)
                   ELSE acc < IntMaxDiv10 \/ (acc = IntMaxDiv10 /\ d <= 7)
       IN  IF fits
           THEN StoiDigits(s, i + 1, neg,
                           IF neg THEN acc * 10 - d ELSE acc * 10 + d, TRUE)
           ELSE [ok |-> FALSE, val |-> 0]
  ELSE [ok |-> seen, val |-> acc]

StoiWhole(s) ==
  LET i == SkipSpace(s, 1)
      signed == i <= Len(s) /\ s[i] \in {"+", "-"}
      neg == signed /\ s[i] = "-"
      first == IF signed THEN i + 1 ELSE i
      r == StoiDigits(s, first, neg, 0, FALSE)
  IN  [ok |-> r.ok /\ \A j \in first..Len(s) : IsDigit(s[j]), val |-> r.val]

Stoi(s) ==
  LET i == SkipSpace(s, 1)
      signed == i <= Len(s) /\ s[i] \in {"+", "-"}
      neg == signed /\ s[i] = "-"
  IN  StoiDigits(s, IF signed THEN i + 1 ELSE i, neg, 0, FALSE)

(***************************************************************************)
(* initialize (lines 70-99).                                               *)
(***************************************************************************)
\* the values i (or k) that one loop of lines 92 and 94 visits, for a
\* dimension n and ring s: from n/2 - s while i < n/2 + s, compared as size_t
RingRangeWide(n, s) ==
  LET lo == (n \div 2) - s
      hi == (n \div 2) + s + 1
  IN  IF IntLessSizeT(lo, hi) THEN lo .. (hi - 1) ELSE {}

RingRange(n, s) ==
  LET lo == (n \div 2) - s
      hi == (n \div 2) + s
  IN  IF IntLessSizeT(lo, hi) THEN lo .. (hi - 1) ELSE {}

\* the indices offset + k that ring s writes (line 95)
RingWrites(s, nR, nC) ==
  {i * nC + kk : i \in RingRange(nR, s), kk \in RingRange(nC, s)}

\* the indices offset + k that lines 80-89 write
FillWrites(nR, nC) ==
  {i * nC + kk : i \in 0 .. (nR - 1),
                 kk \in {x \in 0 .. (nC - 1) : IntLessSizeT(x, nC)}}

\* every index initialize writes through ptr_prev (lines 84 and 95)
InitializeWrites(nR, nC) ==
  FillWrites(nR, nC) \cup UNION {RingWrites(s, nR, nC) : s \in 0 .. MaxRing}

\* lines 92-97 for one s
ApplyRing(prev, s, nR, nC) ==
  [p \in DOMAIN prev |->
     IF p \in RingWrites(s, nR, nC) THEN Wavelet(s) ELSE prev[p]]

\* the loop of line 91, from ring s down to ring 0
RECURSIVE AddSource(_, _, _, _)
AddSource(prev, s, nR, nC) ==
  IF s < 0 THEN prev
  ELSE AddSource(ApplyRing(prev, s, nR, nC), s - 1, nR, nC)

\* the three arrays as initialize leaves them
initialize(nR, nC) ==
  LET cells == 0 .. (nR * nC - 1)
      zero == [p \in cells |-> 0]
  IN  [prev |-> AddSource(zero, MaxRing, nR, nC),
       next |-> zero,
       vel  |-> [p \in cells |-> VelSquared]]

(***************************************************************************)
(* The stencil, the serial driver and the kernel (lines 169-231).          *)
(***************************************************************************)
\* lines 182-186: the new next[gid] of the serial driver
cpu_stencil_plus(next, prev, vel, gid, nC) ==
  LET lap == (prev[gid + 1] - 2 * prev[gid] + prev[gid - 1])
             + (prev[gid + nC] - 2 * prev[gid] + prev[gid - nC])
      value == RoundDiv(lap * CoefNum(vel[gid]), CoefDen(vel[gid]))
  IN  2 * prev[gid] + next[gid] + value

cpu_stencil(next, prev, vel, gid, nC) ==
  LET lap == (prev[gid + 1] - 2 * prev[gid] + prev[gid - 1])
             + (prev[gid + nC] - 2 * prev[gid] + prev[gid - nC])
      value == RoundDiv(lap * CoefNum(vel[gid]), CoefDen(vel[gid]))
  IN  2 * prev[gid] - next[gid] + value

\* lines 176-188 with `j <= nCols - HALF_LENGTH` in the inner loop
cpu_sweep_edge(next, prev, vel, nR, nC) ==
  LET swept == {j + (i * nC) : i \in 1 .. (nR - HALF_LENGTH - 1),
                               j \in 1 .. (nC - HALF_LENGTH)}
  IN  [gid \in DOMAIN next |->
         IF gid \in swept THEN cpu_stencil(next, prev, vel, gid, nC)
         ELSE next[gid]]

\* lines 181-186: the indices one pass of the inner loop reads or writes
stencil_accesses(gid, nC) == {gid, gid + 1, gid - 1, gid + nC, gid - nC}

\* lines 176-188: the indices one sweep reads or writes in next, prev and vel
cpu_accesses(nR, nC) ==
  UNION {stencil_accesses(j + (i * nC), nC) :
           i \in 1 .. (nR - HALF_LENGTH - 1), j \in 1 .. (nC - HALF_LENGTH - 1)}

\* lines 176-188: one sweep of the loops over i and j.  Each pass writes
\* next[gid] for its own gid = j + i * nCols and reads prev, vel and that one
\* cell of next, so the array after the sweep is the cell-wise result
cpu_sweep(next, prev, vel, nR, nC) ==
  LET swept == {j + (i * nC) : i \in 1 .. (nR - HALF_LENGTH - 1),
                               j \in 1 .. (nC - HALF_LENGTH - 1)}
  IN  [gid \in DOMAIN next |->
         IF gid \in swept THEN cpu_stencil(next, prev, vel, gid, nC)
         ELSE next[gid]]

\* lines 219-220: the work-item is inside the effective grid (not in halo)
InsideLoose(gidRow, gidCol, nR, nC) ==
  /\ gidCol >= HALF_LENGTH /\ gidCol <= nC - HALF_LENGTH
  /\ gidRow >= HALF_LENGTH /\ gidRow < nR - HALF_LENGTH

InsideEffectiveGrid(gidRow, gidCol, nR, nC) ==
  /\ gidCol >= HALF_LENGTH /\ gidCol < nC - HALF_LENGTH
  /\ gidRow >= HALF_LENGTH /\ gidRow < nR - HALF_LENGTH

\* lines 225-229: the new next[gid] of one work-item
global_stencil(next, prev, vel, gid, nC) ==
  LET lap == (prev[gid + 1] - 2 * prev[gid] + prev[gid - 1])
             + (prev[gid + nC] - 2 * prev[gid] + prev[gid - nC])
      value == RoundDiv(lap * CoefNum(vel[gid]), CoefDen(vel[gid]))
  IN  2 * prev[gid] - next[gid] + value

\* lines 204-231: what work-item (gidRow, gidCol) leaves in next[gid]
iso_2dfd_iteration_global(gidRow, gidCol, next, prev, vel, nR, nC) ==
  LET gid == gidRow * nC + gidCol
  IN  IF InsideEffectiveGrid(gidRow, gidCol, nR, nC)
      THEN global_stencil(next, prev, vel, gid, nC)
      ELSE next[gid]

\* lines 215-229: the indices work-item (gidRow, gidCol) reads or writes
item_accesses(gidRow, gidCol, nR, nC) ==
  IF InsideEffectiveGrid(gidRow, gidCol, nR, nC)
  THEN stencil_accesses(gidRow * nC + gidCol, nC)
  ELSE {}

\* the indices the work-items of one kernel read or write
kernel_accesses(nR, nC) ==
  UNION {item_accesses(r, c, nR, nC) : r \in 0 .. (nR - 1), c \in 0 .. (nC - 1)}

\* h.parallel_for(range<2>(nRows, nCols), ...) (lines 324-342): every
\* work-item writes at most its own cell of next and reads prev, vel and that
\* cell, so the array after the kernel is the cell-wise result
parallel_for(next, prev, vel, nR, nC) ==
  [gid \in DOMAIN next |->
     iso_2dfd_iteration_global(gid \div nC, gid % nC, next, prev, vel, nR, nC)]

(***************************************************************************)
(* within_epsilon (lines 125-162).  The result carries the returned flag,  *)
(* the lines written to error_diff.txt, and the positions (counted from    *)
(* the start of the arrays) whose values line 143 reads.  norm2 is only    *)
(* printed and is not part of the state.                                   *)
(***************************************************************************)
\* line 145: the point is offending
Exceeds(difference, delta) == difference > delta

\* lines 139-155: the loops make dimy * dimx passes and advance both
\* pointers once per pass, so pass number pos (from 0) has iy = pos / dimx,
\* ix = pos % dimx and reads output[pos] and reference[pos]
within_epsilon(output, reference, dimx, dimy, radius, delta) ==
  LET passes == dimx * dimy
      ix(pos) == pos % dimx
      iy(pos) == pos \div dimx
      inside(pos) == /\ ix(pos) >= radius /\ ix(pos) < dimx - radius
                     /\ iy(pos) >= radius /\ iy(pos) < dimy - radius
      difference(pos) == Abs(reference[pos] - output[pos])
      bad(pos) == inside(pos) /\ Exceeds(difference(pos), delta)
      rec(pos) == [x |-> ix(pos), y |-> iy(pos), output |-> output[pos],
                   reference |-> reference[pos], difference |-> difference(pos)]
      order == [n \in 1 .. passes |-> n - 1]
      offending(pos) == bad(pos)
      hits == SelectSeq(order, offending)
  IN  [error |-> \E pos \in 0 .. (passes - 1) : bad(pos),
       records |-> [n \in 1 .. Len(hits) |-> rec(hits[n])],
       compared |-> {pos \in 0 .. (passes - 1) : inside(pos)}]

(***************************************************************************)
(* The inputs: what the command line may hold.                             *)
(***************************************************************************)
\* arguments std::stoi cannot convert: empty, no digit, a lone sign, above
\* INT_MAX
BadTokens ==
  {<< >>, <<"a", "b", "c">>, <<"-">>,
   <<"2", "1", "4", "7", "4", "8", "3", "6", "4", "8">>}
\* arguments std::stoi converts although they are no plain numeral
OddTokens == {<<"3", "x">>, <<" ", "2">>, <<"+", "4">>, <<" ", "\t", "\n", "5">>}
\* grid sizes are taken from 1..MaxN (a size of 0 or below is outside the
\* model), iteration counts from 0..MaxIter
SizeTokens == {Numeral(n) : n \in 1..MaxN} \cup OddTokens \cup BadTokens
IterTokens == {Numeral(n) : n \in 0..MaxIter} \cup BadTokens
ArgvSet ==
  {<< >>}
  \cup {<<a>> : a \in SizeTokens}
  \cup {<<a, b>> : a \in SizeTokens, b \in SizeTokens}
  \cup {<<a, b, c>> : a \in SizeTokens, b \in SizeTokens, c \in IterTokens}

(***************************************************************************)
(* main (lines 233-409).                                                   *)
(***************************************************************************)
Init ==
  /\ argv \in ArgvSet
  /\ pc = "parse"
  /\ nRows = 0 /\ nCols = 0 /\ nIterations = 0
  /\ prev_base = << >> /\ next_base = << >>
  /\ next_cpu = << >> /\ vel_base = << >>
  /\ k = 0 /\ executed = 0
  /\ cpu_k = 0 /\ cpu_next = "next_cpu" /\ cpu_prev = "prev_base"
  /\ error = FALSE /\ errFile = << >> /\ compared = {}
  /\ snapshot = << >> /\ snapshot_cpu = << >>
  /\ usagePrinted = FALSE
  /\ exitCode = NoExit
  /\ ran = << >>

\* argv[i] is a string (not the null pointer argv[argc])
ArgPresent(i) == i <= Len(argv)
\* std::stoi(argv[i]) returns
Converts(i) == ArgPresent(i) /\ Stoi(argv[i]).ok
\* the first of the three conversions of lines 248-250 that does not return
\* (0: all three return)
FirstBad ==
  IF \A i \in 1..3 : Converts(i) THEN 0
  ELSE CHOOSE i \in 1..3 : ~Converts(i) /\ \A j \in 1..(i - 1) : Converts(j)

\* lines 247-251, no exception
ParseOk ==
  /\ pc = "parse"
  /\ FirstBad = 0
  /\ nRows' = Stoi(argv[1]).val
  /\ nCols' = Stoi(argv[2]).val
  /\ nIterations' = Stoi(argv[3]).val
  /\ pc' = "alloc"
  /\ UNCHANGED <<ran, argv, prev_base, next_base, next_cpu, vel_base, k, executed,
                 cpu_k, cpu_next, cpu_prev, error, errFile, compared,
                 snapshot, snapshot_cpu, usagePrinted, exitCode>>

\* lines 247-256: a conversion throws (std::stoi on a string it cannot
\* convert, or the std::string constructor on the null pointer), the handler
\* prints the usage and main returns 1
ParseThrow ==
  /\ pc = "parse"
  /\ FirstBad # 0
  /\ nRows' = IF FirstBad > 1 THEN Stoi(argv[1]).val ELSE nRows
  /\ nCols' = IF FirstBad > 2 THEN Stoi(argv[2]).val ELSE nCols
  /\ usagePrinted' = TRUE
  /\ exitCode' = 1
  /\ pc' = "usage_exit"
  /\ UNCHANGED <<ran, argv, nIterations, prev_base, next_base, next_cpu, vel_base,
                 k, executed, cpu_k, cpu_next, cpu_prev, error, errFile,
                 compared, snapshot, snapshot_cpu>>

\* lines 248-250 on a missing argument: std::string built from the null
\* pointer argv[argc] is undefined behaviour; besides throwing (ParseThrow)
\* the process may be killed
ParseNullCrash ==
  /\ pc = "parse"
  /\ FirstBad # 0
  /\ ~ArgPresent(FirstBad)
  /\ nRows' = IF FirstBad > 1 THEN Stoi(argv[1]).val ELSE nRows
  /\ nCols' = IF FirstBad > 2 THEN Stoi(argv[2]).val ELSE nCols
  /\ pc' = "crashed"
  /\ UNCHANGED <<ran, argv, nIterations, prev_base, next_base, next_cpu, vel_base,
                 k, executed, cpu_k, cpu_next, cpu_prev, error, errFile,
                 compared, snapshot, snapshot_cpu, usagePrinted, exitCode>>

\* lines 259-272: allocate the four arrays, initialize three of them
\* (next_cpu stays unwritten)
AllocInitialize ==
  /\ pc = "alloc"
  /\ LET a == initialize(nRows, nCols)
     IN  /\ prev_base' = a.prev
         /\ next_base' = a.next
         /\ vel_base' = a.vel
  /\ pc' = "device"
  /\ UNCHANGED <<ran, argv, nRows, nCols, nIterations, next_cpu, k, executed,
                 cpu_k, cpu_next, cpu_prev, error, errFile, compared,
                 snapshot, snapshot_cpu, usagePrinted, exitCode>>

\* lines 315-345, host side: one pass of the loop submits the command group
\* of step k to the queue
Submit ==
  /\ pc = "device"
  /\ k < nIterations
  /\ k' = k + 1
  /\ UNCHANGED <<ran, argv, pc, nRows, nCols, nIterations, prev_base, next_base,
                 next_cpu, vel_base, executed, cpu_k, cpu_next, cpu_prev,
                 error, errFile, compared, snapshot, snapshot_cpu,
                 usagePrinted, exitCode>>

\* lines 338-342 with vel.get_pointer() passed where prev.get_pointer() is
\* meant: the kernel of an odd step updates the velocity array
ExecKernelIntoVel ==
  /\ pc = "device"
  /\ executed < k
  /\ IF executed % 2 = 0
     THEN /\ next_base' = parallel_for(next_base, prev_base, vel_base, nRows, nCols)
          /\ UNCHANGED <<prev_base, vel_base>>
     ELSE /\ vel_base' = parallel_for(vel_base, next_base, vel_base, nRows, nCols)
          /\ UNCHANGED <<prev_base, next_base>>
  /\ executed' = executed + 1
  /\ UNCHANGED <<ran, argv, pc, nRows, nCols, nIterations, next_cpu, k,
                 cpu_k, cpu_next, cpu_prev, error, errFile, compared,
                 snapshot, snapshot_cpu, usagePrinted, exitCode>>

\* lines 331-342 without the alternation of line 331: every kernel is the one
\* of the even steps and writes next
ExecKernelNoRotation ==
  /\ pc = "device"
  /\ executed < k
  /\ next_base' = parallel_for(next_base, prev_base, vel_base, nRows, nCols)
  /\ executed' = executed + 1
  /\ UNCHANGED <<ran, argv, pc, nRows, nCols, nIterations, prev_base, next_cpu,
                 vel_base, k, cpu_k, cpu_next, cpu_prev, error, errFile,
                 compared, snapshot, snapshot_cpu, usagePrinted, exitCode>>

\* lines 331-342, device side: the oldest submitted kernel runs.  Every
\* command group takes read_write accessors to b_next and b_prev, so the
\* runtime runs the kernels one after the other in submission order; the
\* kernel submitted with loop counter `executed` writes next when that
\* counter is even and prev when it is odd
ExecKernel ==
  /\ pc = "device"
  /\ executed < k
  /\ IF executed % 2 = 0
     THEN /\ next_base' = parallel_for(next_base, prev_base, vel_base, nRows, nCols)
          /\ UNCHANGED prev_base
     ELSE /\ prev_base' = parallel_for(prev_base, next_base, vel_base, nRows, nCols)
          /\ UNCHANGED next_base
  /\ executed' = executed + 1
  /\ UNCHANGED <<ran, argv, pc, nRows, nCols, nIterations, next_cpu, vel_base, k,
                 cpu_k, cpu_next, cpu_prev, error, errFile, compared,
                 snapshot, snapshot_cpu, usagePrinted, exitCode>>

\* lines 347-350: the buffers are destroyed, which waits for every kernel and
\* writes the data back to next_base and prev_base; q.wait_and_throw()
EndBufferScope ==
  /\ pc = "device"
  /\ k = nIterations
  /\ executed = k
  /\ pc' = "snapshot"
  /\ UNCHANGED <<ran, argv, nRows, nCols, nIterations, prev_base, next_base,
                 next_cpu, vel_base, k, executed, cpu_k, cpu_next, cpu_prev,
                 error, errFile, compared, snapshot, snapshot_cpu,
                 usagePrinted, exitCode>>

\* lines 288-296, run from q.wait_and_throw() (line 350): the device has
\* reported an asynchronous error; the handler rethrows it, catches it and
\* calls std::terminate().  The process ends without exit status of main;
\* nothing after line 350 runs
AsyncErrorTerminate ==
  /\ pc = "device"
  /\ k = nIterations
  /\ executed = k
  /\ pc' = "terminated"
  /\ UNCHANGED <<ran, argv, nRows, nCols, nIterations, prev_base, next_base,
                 next_cpu, vel_base, k, executed, cpu_k, cpu_next, cpu_prev,
                 error, errFile, compared, snapshot, snapshot_cpu,
                 usagePrinted, exitCode>>

\* lines 358-362: wavefield_snapshot.bin
WriteSnapshot ==
  /\ pc = "snapshot"
  /\ snapshot' = next_base
  /\ pc' = "reinit"
  /\ UNCHANGED <<ran, argv, nRows, nCols, nIterations, prev_base, next_base,
                 next_cpu, vel_base, k, executed, cpu_k, cpu_next, cpu_prev,
                 error, errFile, compared, snapshot_cpu, usagePrinted,
                 exitCode>>

\* line 368 without the call of initialize on prev_base: only next_cpu is
\* cleared and the serial driver starts from what the parallel run left
ReinitializeNextOnly ==
  /\ pc = "reinit"
  /\ next_cpu' = initialize(nRows, nCols).next
  /\ cpu_next' = "next_cpu"
  /\ cpu_prev' = "prev_base"
  /\ cpu_k' = 0
  /\ pc' = "cpu"
  /\ UNCHANGED <<ran, argv, nRows, nCols, nIterations, prev_base, next_base,
                 vel_base, k, executed, error, errFile, compared, snapshot,
                 snapshot_cpu, usagePrinted, exitCode>>

\* line 368 and the entry of iso_2dfd_iteration_cpu (lines 169-174)
Reinitialize ==
  /\ pc = "reinit"
  /\ LET a == initialize(nRows, nCols)
     IN  /\ prev_base' = a.prev
         /\ next_cpu' = a.next
         /\ vel_base' = a.vel
  /\ cpu_next' = "next_cpu"
  /\ cpu_prev' = "prev_base"
  /\ cpu_k' = 0
  /\ pc' = "cpu"
  /\ UNCHANGED <<ran, argv, nRows, nCols, nIterations, next_base, k, executed,
                 error, errFile, compared, snapshot, snapshot_cpu,
                 usagePrinted, exitCode>>

\* the array a pointer of iso_2dfd_iteration_cpu points to
Deref(ptr) == IF ptr = "next_cpu" THEN next_cpu ELSE prev_base

\* lines 175-194: one pass of the loop over k of the serial driver: the sweep
\* into *next, then the swap of next and prev
CpuStep ==
  /\ pc = "cpu"
  /\ cpu_k < nIterations
  /\ LET swept == cpu_sweep(Deref(cpu_next), Deref(cpu_prev), vel_base,
                            nRows, nCols)
     IN  IF cpu_next = "next_cpu"
         THEN next_cpu' = swept /\ UNCHANGED prev_base
         ELSE prev_base' = swept /\ UNCHANGED next_cpu
  /\ cpu_next' = cpu_prev
  /\ cpu_prev' = cpu_next
  /\ cpu_k' = cpu_k + 1
  /\ UNCHANGED <<ran, argv, pc, nRows, nCols, nIterations, next_base, vel_base, k,
                 executed, error, errFile, compared, snapshot, snapshot_cpu,
                 usagePrinted, exitCode>>

\* line 384 (after the serial driver returned): dimx receives nRows and dimy
\* receives nCols
Validate ==
  /\ pc = "cpu"
  /\ cpu_k = nIterations
  /\ LET r == within_epsilon(next_base, next_cpu, nRows, nCols, HALF_LENGTH, Delta)
     IN  /\ error' = r.error
         /\ errFile' = r.records
         /\ compared' = r.compared
  /\ pc' = "finish"
  /\ UNCHANGED <<ran, argv, nRows, nCols, nIterations, prev_base, next_base,
                 next_cpu, vel_base, k, executed, cpu_k, cpu_next, cpu_prev,
                 snapshot, snapshot_cpu, usagePrinted, exitCode>>

\* lines 387-408 with `return 0` for line 408
FinishExitZero ==
  /\ pc = "finish"
  /\ snapshot_cpu' = next_cpu
  /\ prev_base' = << >>
  /\ next_base' = << >>
  /\ vel_base' = << >>
  /\ exitCode' = 0
  /\ pc' = "done"
  /\ UNCHANGED <<ran, argv, nRows, nCols, nIterations, next_cpu, k, executed,
                 cpu_k, cpu_next, cpu_prev, error, errFile, compared,
                 snapshot, usagePrinted>>

\* lines 387-408: wavefield_snapshot_cpu.bin, delete[] of three arrays, the
\* exit status
Finish ==
  /\ pc = "finish"
  /\ snapshot_cpu' = next_cpu
  /\ prev_base' = << >>
  /\ next_base' = << >>
  /\ vel_base' = << >>
  /\ exitCode' = IF error THEN 1 ELSE 0
  /\ pc' = "done"
  /\ UNCHANGED <<ran, argv, nRows, nCols, nIterations, next_cpu, k, executed,
                 cpu_k, cpu_next, cpu_prev, error, errFile, compared,
                 snapshot, usagePrinted>>

Next ==
  \/ ParseOk
  \/ ParseThrow
  \/ ParseNullCrash
  \/ AllocInitialize
  \/ Submit
  \/ ExecKernel
  \/ EndBufferScope
  \/ AsyncErrorTerminate
  \/ WriteSnapshot
  \/ Reinitialize
  \/ CpuStep
  \/ Validate
  \/ Finish

Spec == Init /\ [][Next]_vars

(***************************************************************************)
(* The validator on any two grids: main at line 384 with next_base and     *)
(* next_cpu holding an output and a reference that differ in at most two   *)
(* cells (cell a by any of Perturbations, cell b by nothing or 0.2).       *)
(***************************************************************************)
\* largest grid dimension of the validator's inputs
MaxVDim == 4
\* the differences tried: below, at and above the tolerance, both signs
Perturbations == {0, Delta, Delta + 1, 2 * Delta, -2 * Delta}

VInit ==
  \E nR \in 1..MaxVDim, nC \in 1..MaxVDim :
    LET g == initialize(nR, nC).prev IN
    \E a \in 0..(nR * nC - 1) : \E b \in a..(nR * nC - 1) :
      \E da \in Perturbations, db \in {0, 2 * Delta} :
        /\ argv = <<Numeral(nR), Numeral(nC), Numeral(0)>>
        /\ pc = "cpu"
        /\ nRows = nR /\ nCols = nC /\ nIterations = 0
        /\ prev_base = g
        /\ vel_base = initialize(nR, nC).vel
        /\ next_cpu = g
        /\ next_base = [g EXCEPT ![a] = g[a] + da, ![b] = g[b] + db]
        /\ k = 0 /\ executed = 0
        /\ cpu_k = 0 /\ cpu_next = "next_cpu" /\ cpu_prev = "prev_base"
        /\ error = FALSE /\ errFile = << >> /\ compared = {}
        /\ snapshot = next_base /\ snapshot_cpu = << >>
        /\ usagePrinted = FALSE
        /\ exitCode = NoExit
        /\ ran = << >>

VNext ==
  \/ Validate
  \/ Finish

VSpec == VInit /\ [][VNext]_vars

(***************************************************************************)
(* main from the command line, and main at line 384 with any outcome of    *)
(* the validator: the runs on which the exit status is decided.            *)
(***************************************************************************)
ExitInit == Init \/ VInit

ExitSpec == ExitInit /\ [][Next]_vars

(***************************************************************************)
(* initialize on grids below and above the footprint of the wavelet (22    *)
(* cells): main at line 259 for every pair of sizes up to MaxInitDim.      *)
(***************************************************************************)
\* largest grid dimension on which initialize alone is run
MaxInitDim == 24

IInit ==
  \E nR \in 1..MaxInitDim, nC \in 1..MaxInitDim :
    /\ argv = <<Numeral(nR), Numeral(nC), Numeral(0)>>
    /\ pc = "alloc"
    /\ nRows = nR /\ nCols = nC /\ nIterations = 0
    /\ prev_base = << >> /\ next_base = << >>
    /\ next_cpu = << >> /\ vel_base = << >>
    /\ k = 0 /\ executed = 0
    /\ cpu_k = 0 /\ cpu_next = "next_cpu" /\ cpu_prev = "prev_base"
    /\ error = FALSE /\ errFile = << >> /\ compared = {}
    /\ snapshot = << >> /\ snapshot_cpu = << >>
    /\ usagePrinted = FALSE
    /\ exitCode = NoExit
    /\ ran = << >>

INext == AllocInitialize

ISpec == IInit /\ [][INext]_vars

(***************************************************************************)
(* The parallel driver one work-item at a time (lines 308-362): main after *)
(* initialize, on grids of at most MaxItems cells.                         *)
(***************************************************************************)
\* largest number of work-items of a kernel
MaxItems == 12
\* largest iteration count
MaxKIter == 2

\* range<2>(nRows, nCols) (line 324): one work-item per cell, named by its gid
WorkItems(nR, nC) == 0 .. (nR * nC - 1)

\* lines 319-321: the access modes every command group requests
AccessModes ==
  [b_next |-> "read_write", b_prev |-> "read_write", b_vel |-> "read"]

\* two command groups that request these modes on the same buffers never
\* depend on one another
DependsOnNothing(j, i) == FALSE

\* the command group of step j depends on the one of step i: it was
\* submitted later and both access a buffer that one of them may write (the
\* ordering rule of the SYCL runtime for accessors)
DependsOn(j, i) ==
  /\ i < j
  /\ \E b \in DOMAIN AccessModes : AccessModes[b] \in {"write", "read_write"}

\* every work-item of kernel j has run
KernelComplete(j) == ran[j] = WorkItems(nRows, nCols)

\* kernel j is submitted and the kernels it depends on are complete
CanRun(j) ==
  /\ j < k
  /\ \A i \in 0 .. (j - 1) : DependsOn(j, i) => KernelComplete(i)

\* lines 331-342: the buffer passed as `next` (written) to the kernel of step j
WrittenBuffer(j) == IF j % 2 = 0 THEN "b_next" ELSE "b_prev"

\* the kernel of step j is given the buffer it writes as `prev` too
ReadBufferAliased(j) == WrittenBuffer(j)

\* lines 331-342: the buffer passed as `prev` (read) to the kernel of step j
ReadBuffer(j) == IF j % 2 = 0 THEN "b_prev" ELSE "b_next"

\* the storage of a buffer
Storage(b) == IF b = "b_next" THEN next_base ELSE prev_base

\* lines 215-229: the cells work-item g of kernel j writes, as
\* <<buffer, index>>
item_writes(j, g, nR, nC) ==
  IF InsideEffectiveGrid(g \div nC, g % nC, nR, nC)
  THEN {<<WrittenBuffer(j), g>>}
  ELSE {}

\* lines 215-229: the cells work-item g of kernel j reads
item_reads(j, g, nR, nC) ==
  IF InsideEffectiveGrid(g \div nC, g % nC, nR, nC)
  THEN {<<ReadBuffer(j), x>> : x \in stencil_accesses(g, nC)}
       \cup {<<"b_vel", g>>, <<WrittenBuffer(j), g>>}
  ELSE {}

KInit ==
  \E nR \in 1..MaxItems, nC \in 1..MaxItems, n \in 0..MaxKIter :
    /\ nR * nC <= MaxItems
    /\ argv = <<Numeral(nR), Numeral(nC), Numeral(n)>>
    /\ pc = "device"
    /\ nRows = nR /\ nCols = nC /\ nIterations = n
    /\ prev_base = initialize(nR, nC).prev
    /\ next_base = initialize(nR, nC).next
    /\ vel_base = initialize(nR, nC).vel
    /\ next_cpu = << >>
    /\ k = 0 /\ executed = 0
    /\ cpu_k = 0 /\ cpu_next = "next_cpu" /\ cpu_prev = "prev_base"
    /\ error = FALSE /\ errFile = << >> /\ compared = {}
    /\ snapshot = << >> /\ snapshot_cpu = << >>
    /\ usagePrinted = FALSE
    /\ exitCode = NoExit
    /\ ran = [j \in 0 .. (n - 1) |-> {}]

\* lines 204-231: work-item g of kernel j runs
WorkItem(j, g) ==
  /\ pc = "device"
  /\ CanRun(j)
  /\ g \notin ran[j]
  /\ LET value == iso_2dfd_iteration_global(g \div nCols, g % nCols,
                                            Storage(WrittenBuffer(j)),
                                            Storage(ReadBuffer(j)),
                                            vel_base, nRows, nCols)
     IN  IF WrittenBuffer(j) = "b_next"
         THEN /\ next_base' = [next_base EXCEPT ![g] = value]
              /\ UNCHANGED prev_base
         ELSE /\ prev_base' = [prev_base EXCEPT ![g] = value]
              /\ UNCHANGED next_base
  /\ ran' = [ran EXCEPT ![j] = @ \cup {g}]
  /\ executed' = IF ran'[j] = WorkItems(nRows, nCols)
                 THEN executed + 1 ELSE executed
  /\ UNCHANGED <<argv, pc, nRows, nCols, nIterations, next_cpu, vel_base, k,
                 cpu_k, cpu_next, cpu_prev, error, errFile, compared,
                 snapshot, snapshot_cpu, usagePrinted, exitCode>>

\* the device runs some work-item of some kernel that may run
RunWorkItem ==
  \E j \in DOMAIN ran : \E g \in WorkItems(nRows, nCols) : WorkItem(j, g)

KNext ==
  \/ Submit
  \/ RunWorkItem
  \/ EndBufferScope
  \/ AsyncErrorTerminate
  \/ WriteSnapshot

KSpec == KInit /\ [][KNext]_vars

(***************************************************************************)
(* Vocabulary of the properties.                                           *)
(***************************************************************************)
Cells(nR, nC) == 0 .. (nR * nC - 1)
RowOf(p, nC) == p \div nC
ColOf(p, nC) == p % nC
\* the grid points within HALF_LENGTH of an edge of the nR x nC grid
Halo(nR, nC) ==
  {p \in Cells(nR, nC) :
     \/ RowOf(p, nC) < HALF_LENGTH \/ RowOf(p, nC) >= nR - HALF_LENGTH
     \/ ColOf(p, nC) < HALF_LENGTH \/ ColOf(p, nC) >= nC - HALF_LENGTH}
Interior(nR, nC) == Cells(nR, nC) \ Halo(nR, nC)

\* the four arrays are allocated and initialized
Allocated == pc \in {"device", "snapshot", "reinit", "cpu", "finish"}
\* next_cpu is initialized
CpuAllocated == pc \in {"cpu", "finish"}

\* the leapfrog fields: u(-1) is the zero field, u(0) the initialized prev,
\* u(t) the field one full update after u(t-1)
RECURSIVE Field(_)
Field(t) ==
  IF t = -1 THEN initialize(nRows, nCols).next
  ELSE IF t = 0 THEN initialize(nRows, nCols).prev
  ELSE parallel_for(Field(t - 2), Field(t - 1), initialize(nRows, nCols).vel,
                    nRows, nCols)

(***************************************************************************)
(* C1.  Cross-mode equivalence: when both drivers have run from the same   *)
(* initialized fields, next_base (parallel) equals next_cpu (serial) at    *)
(* every interior point, and the validator called on them returned         *)
(* error = false.                                                          *)
(***************************************************************************)
C1_CrossModeEquivalence ==
  pc = "finish" =>
    /\ \A p \in Interior(nRows, nCols) : next_base[p] = next_cpu[p]
    /\ error = FALSE

\* both drivers ran three steps on a grid with interior points and the
\* result differs from the zero field the buffer started with
C1_Witness ==
  /\ pc = "finish"
  /\ nIterations = 3
  /\ nRows >= 4 /\ nCols >= 5
  /\ \E p \in Interior(nRows, nCols) : next_base[p] # 0

(***************************************************************************)
(* C2.  After all nIterations >= 1 steps the persisted and validated       *)
(* result (next_base, written to wavefield_snapshot.bin, and next_cpu)     *)
(* holds the field of step nIterations, the one the final step wrote.      *)
(***************************************************************************)
C2_ResultIsFinalStep ==
  (pc = "finish" /\ nIterations >= 1) =>
    /\ snapshot = Field(nIterations)
    /\ next_base = Field(nIterations)
    /\ next_cpu = Field(nIterations)

(***************************************************************************)
(* C3.  Halo invariance: in every state in which the arrays exist, every   *)
(* halo cell of prev_base, next_base and next_cpu holds the value          *)
(* initialize gave it.                                                     *)
(***************************************************************************)
C3_HaloInvariance ==
  Allocated =>
    LET a == initialize(nRows, nCols) IN
    \A p \in Halo(nRows, nCols) :
      /\ prev_base[p] = a.prev[p]
      /\ next_base[p] = a.next[p]
      /\ CpuAllocated => next_cpu[p] = a.next[p]

\* the serial driver has made two sweeps (after the parallel driver made its
\* steps) and both of its buffers changed in the interior
C3_Witness ==
  /\ pc = "cpu"
  /\ cpu_k >= 2
  /\ executed >= 2
  /\ Halo(nRows, nCols) # {}
  /\ \E p \in Interior(nRows, nCols) :
       /\ prev_base[p] # initialize(nRows, nCols).prev[p]
       /\ next_cpu[p] # 0

(***************************************************************************)
(* C4.  The validator, as main invokes it, compares exactly the interior   *)
(* points of the nRows x nCols row-major grid and no halo point.           *)
(***************************************************************************)
C4_ValidatorComparesInterior ==
  pc = "finish" => compared = Interior(nRows, nCols)

(***************************************************************************)
(* C5.  The validator returns error = true exactly when some point it      *)
(* compared has |output - reference| > delta; in particular two grids that *)
(* differ by 0.2 at exactly one interior point of the grid give true, and  *)
(* a difference equal to delta at a point does not make it true.           *)
(***************************************************************************)
Diff(p) == Abs(next_base[p] - next_cpu[p])

\* C5: error is true exactly when a compared point differs by more than
\* delta; one interior point off by 0.2 and nothing else gives true; grids
\* whose largest difference is delta itself give false
C5_ErrorIffExceeds ==
  pc = "finish" =>
    /\ error = (\E p \in compared : Diff(p) > Delta)
    /\ (\E p \in Interior(nRows, nCols) :
          /\ Diff(p) = 2 * Delta
          /\ \A q \in Cells(nRows, nCols) \ {p} : Diff(q) = 0) => error
    /\ (/\ \E p \in Interior(nRows, nCols) : Diff(p) = Delta
        /\ \A p \in Cells(nRows, nCols) : Diff(p) <= Delta) => ~error

(***************************************************************************)
(* C6.  error_diff.txt holds exactly one record for every offending        *)
(* interior point of the grid and none for another point, in row-major     *)
(* order, each with the coordinates of its grid point (x the column, y the *)
(* row) and the two values compared there.                                 *)
(***************************************************************************)
Offending == {p \in Interior(nRows, nCols) : Diff(p) > Delta}

\* C6: the records are the offending interior points, in row-major order,
\* each with its own coordinates and values
C6_OneRecordPerOffendingPoint ==
  pc = "finish" =>
    /\ Len(errFile) = Cardinality(Offending)
    /\ \A n \in 1..Len(errFile) :
         \E p \in Offending :
           /\ Cardinality({q \in Offending : q <= p}) = n
           /\ errFile[n].y = RowOf(p, nCols)
           /\ errFile[n].x = ColOf(p, nCols)
           /\ errFile[n].output = next_base[p]
           /\ errFile[n].reference = next_cpu[p]

(***************************************************************************)
(* C7.  Zero-iteration identity: with Iterations = 0 no kernel runs and    *)
(* the persisted result is the initialized field with the source wavelet.  *)
(***************************************************************************)
C7_ZeroIterationsKeepsWavelet ==
  (pc = "finish" /\ nIterations = 0) =>
    /\ executed = 0
    /\ cpu_k = 0
    /\ snapshot = initialize(nRows, nCols).prev

(***************************************************************************)
(* C8.  Symmetry: the field initialize produces is unchanged by a rotation *)
(* of 180 degrees about the grid centre,                                   *)
(* prev[r][c] = prev[nRows-1-r][nCols-1-c].                                *)
(***************************************************************************)
Rotated(p, nR, nC) == (nR - 1 - RowOf(p, nC)) * nC + (nC - 1 - ColOf(p, nC))
Symmetric(f, nR, nC) == \A p \in Cells(nR, nC) : f[p] = f[Rotated(p, nR, nC)]
\* initialize has run and no kernel has
AfterInitialize == pc = "device" /\ executed = 0

\* C8 as claimed: the initialized field is symmetric for every grid size
C8_SymmetryEverySize ==
  AfterInitialize => Symmetric(prev_base, nRows, nCols)

\* C8 amended: the initialized field is symmetric when nRows and nCols are
\* even
C8_SymmetryEvenSizes ==
  (AfterInitialize /\ nRows % 2 = 0 /\ nCols % 2 = 0) =>
    Symmetric(prev_base, nRows, nCols)

\* an even grid whose initialized field holds several rings
C8_Witness ==
  /\ AfterInitialize
  /\ nRows = 8 /\ nCols = 6
  /\ Cardinality({prev_base[p] : p \in Cells(nRows, nCols)}) >= 3

(***************************************************************************)
(* C9.  The 10 x 10 grid with Iterations = 1.  As claimed: every halo cell *)
(* is 0.0 after initialization and stays 0.0.  Amended: ring 5 of the      *)
(* wavelet covers the whole grid, so every halo cell of prev_base holds    *)
(* wavelet[5] and every halo cell of next_base and next_cpu holds 0.0,     *)
(* after initialization and to the end of the run.                         *)
(***************************************************************************)
Scenario10 == nRows = 10 /\ nCols = 10 /\ nIterations = 1

\* C9 as claimed: in the scenario every halo cell of both buffers is 0.0 from
\* initialization on
C9_HaloStaysZero ==
  (Scenario10 /\ Allocated) =>
    \A p \in Halo(nRows, nCols) : prev_base[p] = 0 /\ next_base[p] = 0

\* C9 amended: in the scenario every halo cell of prev_base is wavelet[5] and
\* every halo cell of next_base and next_cpu is 0.0, from initialization on
C9_HaloKeepsRingFive ==
  (Scenario10 /\ Allocated) =>
    \A p \in Halo(nRows, nCols) :
      /\ prev_base[p] = Wavelet(5)
      /\ next_base[p] = 0
      /\ CpuAllocated => next_cpu[p] = 0

\* the scenario has run both drivers and the interior has changed
C9_Witness ==
  /\ Scenario10
  /\ pc = "finish"
  /\ \E p \in Interior(nRows, nCols) : next_base[p] # 0

(***************************************************************************)
(* C10.  Argument errors.  As claimed: when one of n1, n2, Iterations is   *)
(* missing or is not a positive integer, the program prints the usage and  *)
(* exits with 1 without allocating or running a driver.  Amended: that     *)
(* holds when std::stoi cannot convert the argument (empty, no digit, out  *)
(* of int range); a missing argument leads there or to a crash; an         *)
(* argument std::stoi converts (0, a number followed by text) is accepted. *)
(***************************************************************************)
\* the argument is written as a positive integer
PositiveNumeral(s) ==
  /\ Len(s) >= 1
  /\ \A j \in 1..Len(s) : IsDigit(s[j])
  /\ \E j \in 1..Len(s) : s[j] # "0"
NothingRan ==
  /\ prev_base = << >> /\ next_base = << >>
  /\ next_cpu = << >> /\ vel_base = << >>
  /\ k = 0 /\ executed = 0 /\ cpu_k = 0
  /\ snapshot = << >> /\ snapshot_cpu = << >>
UsageExit == pc = "usage_exit" /\ usagePrinted /\ exitCode = 1

\* C10 as claimed: a missing argument, or one that is not written as a
\* positive integer, ends in the usage message and exit code 1 with nothing
\* allocated or run (a process killed while reading the null argv entry is
\* set aside: the claim is taken to speak of the runs in which the exception
\* is thrown)
C10_UsageOnAnyMalformed ==
  (/\ pc \notin {"parse", "crashed"}
   /\ \E i \in 1..3 : ~ArgPresent(i) \/ ~PositiveNumeral(argv[i]))
    => (UsageExit /\ NothingRan)

\* the first argument that is missing or that std::stoi cannot convert
Unconvertible(i) == ~ArgPresent(i) \/ argv[i] \in BadTokens
FirstUnconvertible ==
  IF \A i \in 1..3 : ~Unconvertible(i) THEN 0
  ELSE CHOOSE i \in 1..3 : Unconvertible(i) /\ \A j \in 1..(i - 1) : ~Unconvertible(j)

\* C10 amended: usage and exit code 1, with nothing allocated or run, exactly
\* when an argument is missing or std::stoi cannot convert it (a missing one
\* may crash instead)
C10_UsageOnUnconvertible ==
  pc # "parse" =>
    LET i == FirstUnconvertible IN
    /\ i # 0 => /\ NothingRan
                /\ pc \in {"usage_exit", "crashed"}
                /\ pc = "usage_exit" => UsageExit
                /\ ArgPresent(i) => UsageExit
    /\ i = 0 => ~usagePrinted /\ pc \notin {"usage_exit", "crashed"}

\* Iterations is present and not a number; the program printed the usage
C10_Witness ==
  /\ UsageExit
  /\ Len(argv) = 3
  /\ argv[1] = Numeral(4) /\ argv[2] = Numeral(6)
  /\ argv[3] = <<"a", "b", "c">>

(***************************************************************************)
(* C11.  A run whose arguments were accepted exits with 0 exactly when the *)
(* validator returned error = false and with 1 when it returned true, and  *)
(* it exits only after every phase: all steps of both drivers were made    *)
(* and both result fields were written to their files.                     *)
(***************************************************************************)
\* main returned from line 408 (not from the usage handler)
Exited == exitCode # NoExit /\ ~usagePrinted

C11_ExitCodeIsVerdict ==
  Exited =>
    /\ pc = "done"
    /\ (exitCode = 0) = (error = FALSE)
    /\ (exitCode = 1) = (error = TRUE)
    /\ executed = nIterations /\ cpu_k = nIterations
    /\ DOMAIN snapshot = Cells(nRows, nCols)
    /\ DOMAIN snapshot_cpu = Cells(nRows, nCols)
    /\ snapshot_cpu = next_cpu

\* the validator reported a difference and the run ended with status 1 after
\* writing both files
C11_Witness ==
  /\ pc = "done"
  /\ error = TRUE
  /\ exitCode = 1
  /\ errFile # << >>
  /\ snapshot # << >> /\ snapshot_cpu # << >>

(***************************************************************************)
(* C12.  vel is read-only after initialization: in every state reached     *)
(* while the parallel driver or the serial driver runs (and up to the      *)
(* release of the array) vel_base holds the contents initialize gave it.   *)
(***************************************************************************)
C12_VelReadOnly ==
  Allocated => vel_base = initialize(nRows, nCols).vel

\* the serial driver has made its three sweeps after the three kernels, on a
\* grid with interior points
C12_Witness ==
  /\ pc = "cpu"
  /\ executed = 3 /\ cpu_k = 3
  /\ Interior(nRows, nCols) # {}
  /\ \A p \in Cells(nRows, nCols) : vel_base[p] = VelSquared

(***************************************************************************)
(* C13.  As claimed: the serial reference pass (re-initialization and      *)
(* serial steps) writes no buffer the parallel driver wrote.  Amended: the *)
(* serial pass reuses prev_base (and vel_base) of the parallel run and     *)
(* adds next_cpu; it never writes next_base, the buffer holding the        *)
(* parallel result, and it starts from freshly initialized arrays whatever *)
(* the parallel run left in them.                                          *)
(***************************************************************************)
\* the serial pass: line 368 to the return of iso_2dfd_iteration_cpu
SerialPass == pc \in {"reinit", "cpu"}
\* the parallel driver changed next_base (kernel 0 ran) or prev_base
\* (kernel 1 ran) on a grid with interior points
ParallelWroteNext == executed >= 1 /\ Interior(nRows, nCols) # {}
ParallelWrotePrev == executed >= 2 /\ Interior(nRows, nCols) # {}

\* C13 as claimed: no buffer written by the parallel driver is written by
\* the serial pass
C13_SerialSharesNoBuffer ==
  [][SerialPass =>
       /\ ParallelWroteNext => next_base' = next_base
       /\ ParallelWrotePrev => prev_base' = prev_base]_vars

\* C13 amended: the serial pass never writes next_base, and re-initialization
\* gives prev_base, next_cpu and vel_base their initialized contents whatever
\* the parallel run left
C13_SerialKeepsResultStartsFresh ==
  [][/\ SerialPass => next_base' = next_base
     /\ pc = "reinit" =>
          /\ prev_base' = initialize(nRows, nCols).prev
          /\ next_cpu' = initialize(nRows, nCols).next
          /\ vel_base' = initialize(nRows, nCols).vel]_vars

\* the serial driver is about to start after a parallel run of three steps
\* that changed both of its buffers: prev_base is freshly initialized and
\* next_base still holds the parallel result
C13_Witness ==
  /\ pc = "cpu" /\ cpu_k = 0
  /\ executed = 3
  /\ prev_base = initialize(nRows, nCols).prev
  /\ next_base # initialize(nRows, nCols).next
  /\ next_base # Field(1)

(***************************************************************************)
(* C14.  Buffer rotation implements the leapfrog recurrence.  u(-1) is the *)
(* zero field, u(0) the initialized prev field, and at every interior      *)
(* point u(t+1) = 2*u(t) - u(t-1) + laplacian(u(t)) * dtDIVdxy * vel.      *)
(* After step k the buffer that step wrote holds u(k+1) and the other      *)
(* holds u(k) at every interior point; before step k the buffer it is      *)
(* about to write (and whose old content it reads) holds u(k-1).  For both *)
(* drivers.                                                                *)
(***************************************************************************)
Laplacian(u, p, nC) ==
  (u[p + 1] - 2 * u[p] + u[p - 1]) + (u[p + nC] - 2 * u[p] + u[p - nC])

\* u(t) on the grid of the state; a halo cell of u(t) is the cell of the
\* buffer that holds u(t), which is the buffer that held u(t-2)
\* f itself; the comparison makes TLC tabulate f once, where it would
\* otherwise evaluate f's defining expression again at every f[p]
Tabulated(f) == IF f = f THEN f ELSE f

RECURSIVE Leapfrog(_)
Leapfrog(t) ==
  IF t = -1 THEN [p \in Cells(nRows, nCols) |-> 0]
  ELSE IF t = 0 THEN initialize(nRows, nCols).prev
  ELSE LET u1 == Tabulated(Leapfrog(t - 1))
           u2 == Tabulated(Leapfrog(t - 2))
       IN  [p \in Cells(nRows, nCols) |->
              IF p \in Interior(nRows, nCols)
              THEN 2 * u1[p] - u2[p]
                   + RoundDiv(Laplacian(u1, p, nCols) * CoefNum(VelSquared),
                              CoefDen(VelSquared))
              ELSE u2[p]]

\* buffer `cur` holds u(t) and buffer `old` holds u(t-1) at interior points
HoldsLevels(cur, old, t) ==
  LET ut == Leapfrog(t)
      ut1 == Leapfrog(t - 1)
  IN  \A p \in Interior(nRows, nCols) : cur[p] = ut[p] /\ old[p] = ut1[p]

\* C14: after `executed` kernels (and after cpu_k serial sweeps) the buffer
\* written last holds u(executed) and the buffer the next step writes holds
\* u(executed - 1), at every interior point
C14_RotationIsLeapfrog ==
  /\ pc = "device" =>
       IF executed % 2 = 0
       THEN HoldsLevels(prev_base, next_base, executed)
       ELSE HoldsLevels(next_base, prev_base, executed)
  /\ pc = "cpu" => HoldsLevels(Deref(cpu_prev), Deref(cpu_next), cpu_k)

\* three kernels have run on a grid with several interior points; the three
\* levels u(1), u(2), u(3) differ
C14_Witness ==
  /\ pc = "device"
  /\ executed = 3
  /\ Cardinality(Interior(nRows, nCols)) >= 4
  /\ \E p \in Interior(nRows, nCols) :
       /\ next_base[p] # prev_base[p]
       /\ next_base[p] # Leapfrog(1)[p]
       /\ prev_base[p] # Leapfrog(0)[p]

(***************************************************************************)
(* C17.  initialize never writes outside [0, nRows*nCols), for every grid  *)
(* size with nRows, nCols >= 1, grids smaller than the footprint of the    *)
(* wavelet included; a ring whose lower bound nRows/2 - s or nCols/2 - s   *)
(* is negative writes nothing.                                             *)
(***************************************************************************)
C17_InitializeInBounds ==
  pc = "device" =>
    /\ InitializeWrites(nRows, nCols) \subseteq Cells(nRows, nCols)
    /\ \A s \in 0 .. MaxRing :
         ((nRows \div 2) - s < 0 \/ (nCols \div 2) - s < 0)
           => RingWrites(s, nRows, nCols) = {}
    /\ DOMAIN prev_base = Cells(nRows, nCols)
    /\ \A s \in 0 .. MaxRing : \A p \in RingWrites(s, nRows, nCols) :
         \E r \in 0 .. s : prev_base[p] = Wavelet(r)

\* initialize has run on a grid smaller than the footprint in one dimension
\* and larger in the other: the outer rings were skipped, ring 2 was written
C17_Witness ==
  /\ pc = "device"
  /\ nRows = 5 /\ nCols = 23
  /\ RingWrites(3, nRows, nCols) = {}
  /\ RingWrites(2, nRows, nCols) # {}
  /\ \E p \in Cells(nRows, nCols) : prev_base[p] = Wavelet(2)

(***************************************************************************)
(* C18.  For every grid size with nRows, nCols >= 1 every index the serial *)
(* driver and the kernel read or write (gid, gid+1, gid-1, gid+nCols,      *)
(* gid-nCols) lies in [0, nRows*nCols), and a grid with no interior point  *)
(* (1x1, 2x2, ...) is left unchanged by both drivers.                      *)
(***************************************************************************)
C18_DriversInBounds ==
  Allocated =>
    /\ cpu_accesses(nRows, nCols) \subseteq Cells(nRows, nCols)
    /\ kernel_accesses(nRows, nCols) \subseteq Cells(nRows, nCols)
    /\ Interior(nRows, nCols) = {} =>
         /\ kernel_accesses(nRows, nCols) = {}
         /\ cpu_accesses(nRows, nCols) = {}
         /\ prev_base = initialize(nRows, nCols).prev
         /\ next_base = initialize(nRows, nCols).next
         /\ CpuAllocated => next_cpu = initialize(nRows, nCols).next

\* both drivers made three steps on the 2x2 grid, whose four cells hold the
\* wavelet tap of ring 1
C18_Witness ==
  /\ pc = "finish"
  /\ nRows = 2 /\ nCols = 2
  /\ executed = 3 /\ cpu_k = 3
  /\ \A p \in Cells(nRows, nCols) : prev_base[p] = Wavelet(1)

(***************************************************************************)
(* C15.  Within one parallel step no two work-items write the same cell    *)
(* and no work-item reads a cell another work-item of that step writes, so *)
(* the buffers after the step are the same for every order in which the    *)
(* work-items run: whatever the order, the cells of the work-items that    *)
(* have run hold the new level of the leapfrog recurrence, the others the  *)
(* old one, and the buffer read holds the current level.                   *)
(***************************************************************************)
\* work-items a and b of kernel j do not interfere
Independent(j, a, b) ==
  /\ item_writes(j, a, nRows, nCols) \cap item_writes(j, b, nRows, nCols) = {}
  /\ item_reads(j, a, nRows, nCols) \cap item_writes(j, b, nRows, nCols) = {}

\* kernel j has run the work-items ran[j], in whatever order: its written
\* buffer holds u(j+1) at their interior cells and u(j-1) at the other
\* interior cells, and the buffer it reads holds u(j)
StepState(j) ==
  LET new == Leapfrog(j + 1)
      cur == Leapfrog(j)
      old == Leapfrog(j - 1)
      w == IF j % 2 = 0 THEN next_base ELSE prev_base
      r == IF j % 2 = 0 THEN prev_base ELSE next_base
  IN  \A p \in Interior(nRows, nCols) :
        /\ w[p] = IF p \in ran[j] THEN new[p] ELSE old[p]
        /\ r[p] = cur[p]

C15_TasksIndependent ==
  pc = "device" =>
    /\ \A j \in DOMAIN ran : \A a \in ran[j] : \A b \in ran[j] :
         a # b => Independent(j, a, b)
    /\ executed < nIterations => StepState(executed)
    /\ (executed = nIterations /\ executed >= 1) =>
         /\ KernelComplete(executed - 1)
         /\ StepState(executed - 1)

\* on the 3x4 grid the second kernel has run its two interior work-items (5
\* and 6, each a neighbour the other reads) and not yet the work-item of the
\* halo cell 4
C15_Witness ==
  /\ pc = "device"
  /\ nRows = 3 /\ nCols = 4
  /\ DOMAIN ran = {0, 1}
  /\ KernelComplete(0)
  /\ {5, 6} \subseteq ran[1]
  /\ 4 \notin ran[1]
  /\ prev_base[5] # initialize(nRows, nCols).prev[5]
  /\ prev_base[6] # initialize(nRows, nCols).prev[6]

(***************************************************************************)
(* C16.  The steps of the parallel driver are strictly sequential: no      *)
(* work-item of step j+1 runs before every work-item of step j has run,    *)
(* and the host reads next_base (for wavefield_snapshot.bin) only after    *)
(* the last step is complete, and reads what the steps left there.         *)
(***************************************************************************)
\* the host has left the buffer scope (it reads next_base at line 361)
HostReads == pc \in {"snapshot", "reinit"}

C16_StepsSequential ==
  /\ \A j \in DOMAIN ran :
       (j >= 1 /\ ran[j] # {}) => KernelComplete(j - 1)
  /\ HostReads =>
       /\ \A j \in DOMAIN ran : KernelComplete(j)
       /\ executed = nIterations
  /\ pc = "reinit" => snapshot = next_base

\* both kernels were submitted before the first one finished, the second
\* one has run some and not all of its work-items
C16_Witness ==
  /\ pc = "device"
  /\ k = 2
  /\ Interior(nRows, nCols) # {}
  /\ KernelComplete(0)
  /\ ran[1] # {} /\ ~KernelComplete(1)

====
